---- MODULE Spec2Model ----
(***************************************************************************)
(* Model of the post-processing camera component (burst capture, frame     *)
(* processing, sharpness scoring and best-frame selection) of the          *)
(* Android-camera repository.                                              *)
(***************************************************************************)
EXTENDS Integers, Sequences, FiniteSets, TLC

(***************************************************************************)
(* Bounds and program constants                                            *)
(***************************************************************************)
\* stills the capture collaborator can deliver are numbered 0..MaxStill
MaxStill == 3

\* for (let i = 0; i < 3; i++)
BurstSize == 3

\* the shutter taps (invocations of capturePhoto) the model distinguishes
TapIds == {1, 2}

(***************************************************************************)
(* Pixel arithmetic                                                        *)
(***************************************************************************)
Abs(x) == IF x < 0 THEN -x ELSE x

Min2(a, b) == IF a < b THEN a ELSE b

Max2(a, b) == IF a > b THEN a ELSE b

\* the value n/d (d > 0) as stored into a Uint8ClampedArray element:
\* clamped to [0,255] and rounded to the nearest integer, ties to even
ToUint8Clamped(n, d) ==
  IF n <= 0 THEN 0
  ELSE IF n >= 255 * d THEN 255
  ELSE LET q == n \div d
           r == n % d
       IN IF 2 * r > d THEN q + 1
          ELSE IF 2 * r < d THEN q
          ELSE IF q % 2 = 0 THEN q ELSE q + 1

\* Math.pow(v / 255, 1.0 / 1.1) * 255 as stored into a Uint8ClampedArray,
\* tabulated for v = 0..255
Gamma11 ==
  <<
       0,   2,   3,   4,   6,   7,   8,  10,  11,  12,  13,  15,  16,  17,  18,  19,
      21,  22,  23,  24,  25,  26,  27,  29,  30,  31,  32,  33,  34,  35,  36,  38,
      39,  40,  41,  42,  43,  44,  45,  46,  47,  48,  49,  51,  52,  53,  54,  55,
      56,  57,  58,  59,  60,  61,  62,  63,  64,  65,  66,  67,  68,  69,  71,  72,
      73,  74,  75,  76,  77,  78,  79,  80,  81,  82,  83,  84,  85,  86,  87,  88,
      89,  90,  91,  92,  93,  94,  95,  96,  97,  98,  99, 100, 101, 102, 103, 104,
     105, 106, 107, 108, 109, 110, 111, 112, 113, 114, 115, 116, 117, 118, 119, 120,
     121, 122, 123, 124, 125, 126, 127, 128, 129, 129, 130, 131, 132, 133, 134, 135,
     136, 137, 138, 139, 140, 141, 142, 143, 144, 145, 146, 147, 148, 149, 150, 151,
     152, 153, 154, 155, 156, 156, 157, 158, 159, 160, 161, 162, 163, 164, 165, 166,
     167, 168, 169, 170, 171, 172, 173, 174, 174, 175, 176, 177, 178, 179, 180, 181,
     182, 183, 184, 185, 186, 187, 188, 189, 190, 190, 191, 192, 193, 194, 195, 196,
     197, 198, 199, 200, 201, 202, 203, 204, 204, 205, 206, 207, 208, 209, 210, 211,
     212, 213, 214, 215, 216, 217, 217, 218, 219, 220, 221, 222, 223, 224, 225, 226,
     227, 228, 228, 229, 230, 231, 232, 233, 234, 235, 236, 237, 238, 239, 239, 240,
     241, 242, 243, 244, 245, 246, 247, 248, 249, 250, 250, 251, 252, 253, 254, 255
  >>

\* Math.pow(v / 255, 1.1) * 255 as stored into a Uint8ClampedArray, tabulated
\* for v = 0..255
Gamma11Inverse ==
  <<
       0,   1,   1,   2,   3,   3,   4,   5,   6,   6,   7,   8,   9,  10,  10,  11,
      12,  13,  14,  15,  16,  16,  17,  18,  19,  20,  21,  22,  22,  23,  24,  25,
      26,  27,  28,  29,  30,  31,  31,  32,  33,  34,  35,  36,  37,  38,  39,  40,
      41,  42,  42,  43,  44,  45,  46,  47,  48,  49,  50,  51,  52,  53,  54,  55,
      56,  57,  58,  59,  60,  61,  62,  62,  63,  64,  65,  66,  67,  68,  69,  70,
      71,  72,  73,  74,  75,  76,  77,  78,  79,  80,  81,  82,  83,  84,  85,  86,
      87,  88,  89,  90,  91,  92,  93,  94,  95,  96,  97,  98,  99, 100, 101, 102,
     103, 104, 105, 106, 107, 108, 109, 110, 111, 112, 113, 114, 115, 116, 117, 118,
     119, 121, 122, 123, 124, 125, 126, 127, 128, 129, 130, 131, 132, 133, 134, 135,
     136, 137, 138, 139, 140, 141, 142, 143, 144, 145, 146, 147, 149, 150, 151, 152,
     153, 154, 155, 156, 157, 158, 159, 160, 161, 162, 163, 164, 165, 166, 167, 169,
     170, 171, 172, 173, 174, 175, 176, 177, 178, 179, 180, 181, 182, 183, 184, 186,
     187, 188, 189, 190, 191, 192, 193, 194, 195, 196, 197, 198, 199, 201, 202, 203,
     204, 205, 206, 207, 208, 209, 210, 211, 212, 214, 215, 216, 217, 218, 219, 220,
     221, 222, 223, 224, 225, 227, 228, 229, 230, 231, 232, 233, 234, 235, 236, 237,
     239, 240, 241, 242, 243, 244, 245, 246, 247, 248, 250, 251, 252, 253, 254, 255
  >>

\* Math.sqrt(255 * v) rounded to the nearest integer, v in 0..255
SqrtRound(v) ==
  CHOOSE r \in 0..255 :
    /\ 1020 * v < (2 * r + 1) * (2 * r + 1)
    /\ r = 0 \/ (2 * r - 1) * (2 * r - 1) <= 1020 * v

\* the tone curve with the exponent gamma in the place of 1 / gamma
GammaValueInverted(v, gamma10) ==
  CASE gamma10 = 11 -> Gamma11Inverse[v + 1]
    [] gamma10 = 10 -> v
    [] gamma10 = 20 -> ToUint8Clamped(v * v, 255)
    [] gamma10 = 5 -> SqrtRound(v)
    [] gamma10 <= 0 -> 255

\* Math.pow(v / 255, 1.0 / gamma) * 255 stored into the pixel array; gamma is
\* given in tenths (11 is 1.1, 10 is 1.0, 20 is 2.0, 5 is 0.5).  With gamma 0
\* the exponent is Infinity and the power 0 or NaN, stored as 0; with a
\* negative gamma the power is 1 or more, or Infinity, stored as 255
GammaValue(v, gamma10) ==
  CASE gamma10 = 11 -> Gamma11[v + 1]
    [] gamma10 = 10 -> v
    [] gamma10 = 20 -> SqrtRound(v)
    [] gamma10 = 5 -> ToUint8Clamped(v * v, 255)
    [] gamma10 = 0 -> 0
    [] gamma10 < 0 -> 255

(***************************************************************************)
(* Images.  An image is [width, height, data]; data is the RGBA byte array *)
(* of canvas ImageData, element i of the source being data[i + 1] here.    *)
(* A canvas carries in addition the list of filters drawn onto it.         *)
(***************************************************************************)
\* the stills of the capture collaborator: 3x3 grey images with one bright
\* column; still 0 is flat, stills 2m-1 and 2m are mirror images of each other
StillLevel(k) == (k + 1) \div 2

StillValue(k, x) ==
  LET bright == Min2(255, 40 + 70 * StillLevel(k))
      col == IF k % 2 = 1 THEN 2 ELSE 0
  IN IF StillLevel(k) > 0 /\ x = col THEN bright ELSE 40

StillImage(k) ==
  [width |-> 3, height |-> 3,
   data |-> [j \in 1..36 |->
               IF j % 4 = 0 THEN 255
               ELSE StillValue(k, ((j - 1) \div 4) % 3)]]

Stills == 0..MaxStill

\* ctx.drawImage(img, 0, 0) onto a fresh canvas of the image's size
drawImage(img) ==
  [width |-> img.width, height |-> img.height, data |-> img.data, ops |-> <<>>]

\* ctx.getImageData(0, 0, canvas.width, canvas.height)
getImageData(canvas) ==
  [width |-> canvas.width, height |-> canvas.height, data |-> canvas.data]

\* the tone curve run over every element of the array, alpha included
applyGammaCorrectionAllChannels(canvas, gamma10) ==
  [canvas EXCEPT
     !.data = [j \in 1..Len(canvas.data) |->
                 GammaValue(canvas.data[j], gamma10)],
     !.ops = Append(canvas.ops, "gamma")]

applyGammaCorrection(canvas, gamma10) ==
  [canvas EXCEPT
     !.data = [j \in 1..Len(canvas.data) |->
                 IF j % 4 = 0 THEN canvas.data[j]
                 ELSE GammaValue(canvas.data[j], gamma10)],
     !.ops = Append(canvas.ops, "gamma")]

\* tempCtx.filter = blur(radius px); tempCtx.drawImage(tempCanvas, 0, 0):
\* the platform's low-pass filter, taken here as the separable 1-2-1 kernel
\* with clamp-to-edge borders; radius 0 leaves the image as it is, and so
\* does a negative radius, which is no valid filter and is ignored
BlurAt(img, x, y, c) ==
  LET cx(v) == Max2(0, Min2(img.width - 1, v))
      cy(v) == Max2(0, Min2(img.height - 1, v))
      at(u, v) == img.data[(cy(v) * img.width + cx(u)) * 4 + c + 1]
      row(v) == at(x - 1, v) + 2 * at(x, v) + at(x + 1, v)
  IN ToUint8Clamped(row(y - 1) + 2 * row(y) + row(y + 1), 16)

Blur(img, radius10) ==
  IF radius10 <= 0 THEN img.data
  ELSE [j \in 1..Len(img.data) |->
          LET p == (j - 1) \div 4
          IN BlurAt(img, p % img.width, p \div img.width, (j - 1) % 4)]

\* the sharpening step added to the blurred value instead of the original
SharpenedFromBlurred(orig, blurred, amount10) ==
  ToUint8Clamped(10 * blurred + (orig - blurred) * amount10, 10)

\* the sharpening step without Math.min, Math.max and the clamped array
SharpenedUnclamped(orig, blurred, amount10) ==
  (10 * orig + (orig - blurred) * amount10) \div 10

\* one channel of the sharpening step: original + (original - blurred) * amount
Sharpened(orig, blurred, amount10) ==
  ToUint8Clamped(10 * orig + (orig - blurred) * amount10, 10)

applyUnsharpMask(canvas, amount10, radius10, threshold) ==
  LET data == canvas.data
      blurredData == Blur(canvas, radius10)
      \* i is the index of the pixel's red channel, as in the source's loop
      out(j) ==
        LET i == ((j - 1) \div 4) * 4 + 1
            diff == data[i] - blurredData[i]
        IN IF j % 4 # 0 /\ Abs(diff) > threshold
           THEN Sharpened(data[j], blurredData[j], amount10)
           ELSE data[j]
  IN [canvas EXCEPT
        !.data = [j \in 1..Len(data) |-> out(j)],
        !.ops = Append(canvas.ops, "usm")]

(***************************************************************************)
(* Sharpness score.  A score is the rational num/den of thousandths:      *)
(* the grey value is kept as 299 R + 587 G + 114 B.                        *)
(***************************************************************************)
Gray1000(data, idx) ==
  data[idx + 1] * 299 + data[idx + 2] * 587 + data[idx + 3] * 114

\* the Laplacian of the pixel (x, y), in thousandths
Laplacian(imageData, x, y) ==
  LET data == imageData.data
      width == imageData.width
      idx == (y * width + x) * 4
      idxUp == ((y - 1) * width + x) * 4
      idxDown == ((y + 1) * width + x) * 4
      idxLeft == (y * width + (x - 1)) * 4
      idxRight == (y * width + (x + 1)) * 4
  IN Abs(4 * Gray1000(data, idx) - Gray1000(data, idxUp)
         - Gray1000(data, idxDown) - Gray1000(data, idxLeft)
         - Gray1000(data, idxRight))

RECURSIVE SumLaplacian(_, _)
SumLaplacian(imageData, cells) ==
  IF cells = {} THEN 0
  ELSE LET c == CHOOSE d \in cells : TRUE
       IN Laplacian(imageData, c[1], c[2])
          + SumLaplacian(imageData, cells \ {c})

\* the loops of the score starting at the left border column
calculateSharpnessFromBorder(imageData) ==
  LET cells == (0..(imageData.width - 2)) \X (1..(imageData.height - 2))
      sharpness == SumLaplacian(imageData, cells)
      count == Cardinality(cells)
  IN IF count > 0 THEN [num |-> sharpness, den |-> count]
     ELSE [num |-> 0, den |-> 1]

\* the mean taken without the test count > 0
calculateSharpnessUnguarded(imageData) ==
  LET cells == (1..(imageData.width - 2)) \X (1..(imageData.height - 2))
  IN [num |-> SumLaplacian(imageData, cells), den |-> Cardinality(cells)]

calculateSharpness(imageData) ==
  LET cells == (1..(imageData.width - 2)) \X (1..(imageData.height - 2))
      sharpness == SumLaplacian(imageData, cells)
      count == Cardinality(cells)
  IN IF count > 0 THEN [num |-> sharpness, den |-> count]
     ELSE [num |-> 0, den |-> 1]

\* a.sharpness > b.sharpness on two scores
ScoreGreater(a, b) == a.num * b.den > b.num * a.den

ScoreEqual(a, b) == a.num * b.den = b.num * a.den

(***************************************************************************)
(* Frame processor                                                         *)
(***************************************************************************)
\* a picture source: the blob takePhoto resolved with for request i of the
\* burst of tap t, the blob of the single shot of tap t, or the video frame
Blob(t, i, k) == [kind |-> "burst", tap |-> t, idx |-> i, still |-> k]

SingleBlob(t, k) == [kind |-> "single", tap |-> t, idx |-> 0, still |-> k]

VideoFrame(t, k) == [kind |-> "video", tap |-> t, idx |-> 0, still |-> k]

\* the image the browser decodes from a blob
Decode(blob) == StillImage(blob.still)

\* canvas.toDataURL('image/jpeg', 0.95): the encoded picture of the canvas,
\* from the source src
toDataURL(canvas, src) ==
  [format |-> "jpeg", quality |-> 95, src |-> src,
   width |-> canvas.width, height |-> canvas.height,
   data |-> canvas.data, ops |-> canvas.ops]

\* the frame processor sharpening before the tone correction
processPhotoSwapped(blob) ==
  LET drawn == drawImage(Decode(blob))
      sharp == applyUnsharpMask(drawn, 12, 8, 5)
      canvas == applyGammaCorrection(sharp, 11)
  IN [dataUrl |-> toDataURL(canvas, blob), canvas |-> canvas]

\* the body of img.onload in processPhoto
processPhoto(blob) ==
  LET drawn == drawImage(Decode(blob))
      toned == applyGammaCorrection(drawn, 11)
      canvas == applyUnsharpMask(toned, 12, 8, 5)
  IN [dataUrl |-> toDataURL(canvas, blob), canvas |-> canvas]

\* the callback of photos.map scoring the still as captured instead of the
\* processed canvas
CandidateRawScore(blob) ==
  LET result == processPhoto(blob)
      sharpness == calculateSharpness(Decode(blob))
  IN [dataUrl |-> result.dataUrl, canvas |-> result.canvas,
      sharpness |-> sharpness, blob |-> blob]

\* the async callback of photos.map in captureBurstPhotos
Candidate(blob) ==
  LET result == processPhoto(blob)
      imageData == getImageData(result.canvas)
      sharpness == calculateSharpness(imageData)
  IN [dataUrl |-> result.dataUrl, canvas |-> result.canvas,
      sharpness |-> sharpness, blob |-> blob]

\* the blobs the burst of a tap can capture, with the candidate the callback
\* of photos.map makes of each
BurstBlobs == {Blob(t, i, k) : t \in TapIds, i \in 0..(BurstSize - 1), k \in Stills}

CandidateOf == [blob \in BurstBlobs |-> Candidate(blob)]

\* the value of photoUrl, and of a burst's return, that stands for null
NullUrl == [format |-> "null"]

\* the comparison of the reduce the other way round: the least sharp wins
BetterLess(current, prev) == ScoreGreater(prev.sharpness, current.sharpness)

\* the comparison of the reduce with >= : the last of equal scores wins
BetterOrEqual(current, prev) ==
  ~ScoreGreater(prev.sharpness, current.sharpness)

\* best = processed.reduce((prev, current) => ... ? current : prev)
Better(current, prev) == ScoreGreater(current.sharpness, prev.sharpness)

RECURSIVE Reduce(_, _, _)
Reduce(processed, n, prev) ==
  IF n > Len(processed) THEN prev
  ELSE Reduce(processed, n + 1,
              IF Better(processed[n], prev) THEN processed[n] ELSE prev)

Best(processed) == Reduce(processed, 2, processed[1])

\* the Canvas fallback of capturePhoto on the video frame
canvasFallback(frame) ==
  LET drawn == drawImage(Decode(frame))
      toned == applyGammaCorrection(drawn, 11)
      canvas == applyUnsharpMask(toned, 12, 8, 5)
  IN toDataURL(canvas, frame)

\* the video frames the Canvas fallback of a tap can draw, with its output
VideoFrames == {VideoFrame(t, k) : t \in TapIds, k \in Stills}

canvasFallbackOf == [frame \in VideoFrames |-> canvasFallback(frame)]

(***************************************************************************)
(* State of the component                                                  *)
(***************************************************************************)
VARIABLES
  mounted,          \* the component is mounted (videoRef.current is set)
  hasImageCapture,  \* window.ImageCapture is defined in this browser
  camPc,            \* where startCamera / applyOptimalSettings is suspended
  streamRef,        \* streamRef.current: held or not, its tracks stopped
  error,            \* the camera error message is set
  focusStatus,      \* 'focusing', 'focused' or 'error'
  photoUrl,         \* NullUrl or the picture shown in the preview
  taps,             \* per shutter tap: the state of that capturePhoto call
  pix,              \* one call of a pixel function: its arguments and result
  variant,          \* which of the Camera components is mounted
  applied,          \* the applyConstraints calls made on the video track
  gyro              \* the orientation effect: handler, its locals, isStable

vars ==
  <<mounted, hasImageCapture, camPc, streamRef, error, focusStatus, photoUrl,
    taps, pix, variant, applied, gyro>>

\* no pixel function is being followed
NoCall == [stage |-> "none"]

NoStream == [held |-> FALSE, stopped |-> FALSE]

Loading == [state |-> "loading"]

Broken == [state |-> "broken"]

Fulfilled(cand) == [state |-> "fulfilled", cand |-> cand]

\* the locals of one capturePhoto call and of its captureBurstPhotos call,
\* with what the capture collaborator saw of it
IdleTap ==
  [pc |-> "idle",
   burst |-> "none",      \* captureBurstPhotos: none, running, returned
   i |-> 0,               \* the loop variable
   photos |-> <<>>,       \* const photos = []
   slots |-> <<>>,        \* the promises of photos.map(...), in array order
   order |-> <<>>,        \* the array positions in the order they fulfilled
   issued |-> <<>>,       \* the takePhoto requests of the burst, as issued
   settled |-> <<>>,      \* their outcomes, as delivered
   timerRan |-> FALSE,    \* the 100 ms timer fired since the last request
   ret |-> NullUrl,       \* what captureBurstPhotos returned
   single |-> "none",     \* the single shot: requested, loading, broken, ...
   singleBlob |-> SingleBlob(0, 0),
   fallback |-> "none",   \* the catch block of the single shot: drawn, noVideo
   sets |-> 0,            \* the setPhotoUrl calls of this capturePhoto call
   stale |-> FALSE,       \* retake was pressed while this call was in flight
   onError |-> FALSE]     \* the error message was shown at the tap

\* track.applyConstraints(...) is called: the entry of the call in the log,
\* with whether the tracks of the stream had been stopped by then
Issue(log, call) ==
  Append(log, [call |-> call, onStopped |-> streamRef.stopped,
               outcome |-> "pending"])

\* the promise of the last applyConstraints call settles
Settled(log, outcome) == [log EXCEPT ![Len(log)].outcome = outcome]

\* the outcomes of the calls named call
Outcomes(log, call) ==
  {log[n].outcome : n \in {m \in 1..Len(log) : log[m].call = call}}

\* the orientation events followed
MaxSamples == 13

\* event.beta and event.gamma, in quarters of a degree
Angles == {0, 1, 2}

\* if (stableCount > 10)
StableCountLimit == 10

\* the browsers: no DeviceOrientationEvent, DeviceOrientationEvent with
\* requestPermission, DeviceOrientationEvent without it
OrientationApis == {"none", "permission", "plain"}

\* window.addEventListener('deviceorientation', handleOrientation) with the
\* locals of startGyroTracking
startGyroTracking(g) ==
  [g EXCEPT !.tracking = "registered", !.hasLast = FALSE, !.lastBeta = 0,
            !.lastGamma = 0, !.stableCount = 0]

\* the state the orientation effect leaves on mount
GyroStart(api) ==
  LET g == [api |-> api, tracking |-> "none", hasLast |-> FALSE,
            lastBeta |-> 0, lastGamma |-> 0, stableCount |-> 0,
            isStable |-> FALSE, gyroRef |-> [x |-> 0, y |-> 0],
            run |-> 0,        \* the latest samples in a row that moved less
            samples |-> 0,    \* the events handled
            late |-> 0]       \* the events handled after the unmount
  IN CASE api = "none" -> g
       [] api = "permission" -> [g EXCEPT !.tracking = "pending"]
       [] api = "plain" -> startGyroTracking(g)

Init ==
  /\ mounted = TRUE
  /\ hasImageCapture \in BOOLEAN
  /\ camPc = "getUserMedia"
  /\ streamRef = NoStream
  /\ error = FALSE
  /\ focusStatus = "focusing"
  /\ photoUrl = NullUrl
  /\ taps = [t \in TapIds |-> IdleTap]
  /\ pix = NoCall
  /\ variant = "postProcessing"
  /\ applied = <<>>
  /\ gyro = GyroStart("none")

(***************************************************************************)
(* startCamera and applyOptimalSettings                                    *)
(***************************************************************************)
GetUserMediaResolve ==
  /\ camPc = "getUserMedia"
  /\ streamRef' = [held |-> TRUE, stopped |-> FALSE]
  /\ camPc' = IF mounted THEN "play" ELSE "ready"
  /\ UNCHANGED <<mounted, pix, hasImageCapture, error, focusStatus, photoUrl,
                 taps, variant, applied, gyro>>

GetUserMediaReject ==
  /\ camPc = "getUserMedia"
  /\ error' = TRUE
  /\ camPc' = "failed"
  /\ UNCHANGED <<mounted, pix, hasImageCapture, streamRef, focusStatus,
                 photoUrl, taps, variant, applied, gyro>>

PlayResolve ==
  /\ variant = "postProcessing"
  /\ camPc = "play"
  /\ camPc' = "macro"
  /\ applied' = Issue(applied, "macro")
  /\ UNCHANGED <<mounted, pix, hasImageCapture, streamRef, error, focusStatus,
                 photoUrl, taps, variant, gyro>>

PlayReject ==
  /\ camPc = "play"
  /\ error' = TRUE
  /\ camPc' = "failed"
  /\ UNCHANGED <<mounted, pix, hasImageCapture, streamRef, focusStatus,
                 photoUrl, taps, variant, applied, gyro>>

MacroResolve ==
  /\ camPc = "macro"
  /\ applied' = Settled(applied, "ok")
  /\ focusStatus' = "focused"
  /\ camPc' = "ready"
  /\ UNCHANGED <<mounted, pix, hasImageCapture, streamRef, error, photoUrl,
                 taps, variant, gyro>>

MacroReject ==
  /\ camPc = "macro"
  /\ applied' = Issue(Settled(applied, "failed"), "continuous")
  /\ camPc' = "continuous"
  /\ UNCHANGED <<mounted, pix, hasImageCapture, streamRef, error, focusStatus,
                 photoUrl, taps, variant, gyro>>

ContinuousResolve ==
  /\ camPc = "continuous"
  /\ applied' = Settled(applied, "ok")
  /\ focusStatus' = "focused"
  /\ camPc' = "ready"
  /\ UNCHANGED <<mounted, pix, hasImageCapture, streamRef, error, photoUrl,
                 taps, variant, gyro>>

\* the rejection of the second applyConstraints call reaching the catch block
\* of startCamera
ContinuousRejectToStartCamera ==
  /\ camPc = "continuous"
  /\ applied' = Settled(applied, "failed")
  /\ error' = TRUE
  /\ camPc' = "failed"
  /\ UNCHANGED <<mounted, pix, hasImageCapture, streamRef, focusStatus,
                 photoUrl, taps, variant, gyro>>

ContinuousReject ==
  /\ camPc = "continuous"
  /\ applied' = Settled(applied, "failed")
  /\ focusStatus' = "error"
  /\ camPc' = "ready"
  /\ UNCHANGED <<mounted, pix, hasImageCapture, streamRef, error, photoUrl,
                 taps, variant, gyro>>

\* the cleanup of the camera effect
Unmount ==
  /\ mounted
  /\ mounted' = FALSE
  /\ streamRef' = IF streamRef.held THEN [streamRef EXCEPT !.stopped = TRUE]
                  ELSE streamRef
  /\ UNCHANGED <<pix, hasImageCapture, camPc, error, focusStatus, photoUrl,
                 taps, variant, applied, gyro>>

\* the capturePhoto call has started and has not yet returned
InFlight(s) == s.pc \notin {"idle", "done", "threw"}

\* onClick={() => setPhotoUrl(null)} of the preview; the calls of
\* capturePhoto in flight at that moment are marked
Retake ==
  /\ mounted
  /\ photoUrl # NullUrl
  /\ photoUrl' = NullUrl
  /\ taps' = [t \in TapIds |-> IF InFlight(taps[t])
                                THEN [taps[t] EXCEPT !.stale = TRUE]
                                ELSE taps[t]]
  /\ UNCHANGED <<mounted, pix, hasImageCapture, camPc, streamRef, error,
                 focusStatus, variant, applied, gyro>>

(***************************************************************************)
(* captureBurstPhotos                                                      *)
(***************************************************************************)
\* takePhoto called without awaiting it: the next request goes out at once
IssueRequestNoAwait(s, j) ==
  [s EXCEPT !.pc = "burstTake", !.i = j,
            !.issued = @ \o <<[i |-> j, afterDelay |-> s.timerRan],
                              [i |-> j + 1, afterDelay |-> FALSE]>>,
            !.timerRan = FALSE]

\* imageCapture.takePhoto(...) of the loop, at loop index j
IssueRequest(s, j) ==
  [s EXCEPT !.pc = "burstTake", !.i = j,
            !.issued = Append(@, [i |-> j, afterDelay |-> s.timerRan]),
            !.timerRan = FALSE]

\* the photo handed to the frame processor as soon as it is captured
PushPhotoAndProcess(s, blob) ==
  [s EXCEPT !.photos = Append(@, blob), !.slots = Append(@, Loading)]

\* photos.push(blob)
PushPhoto(s, blob) == [s EXCEPT !.photos = Append(@, blob)]

\* a failed capture tried again at the same index
AfterRejectRetry(j) == j

\* the loop index after the catch block
AfterReject(j) == j + 1

\* the test for an empty burst left out
BurstExhaustedNever(photos) == Len(photos) < 0

\* if (photos.length === 0) return null
BurstExhausted(photos) == Len(photos) = 0

\* photos.map(async (blob) => ...): one promise per photo, awaiting its image
StartProcessing(s) ==
  [s EXCEPT !.pc = "burstProcess",
            !.slots = [n \in 1..Len(s.photos) |-> Loading]]

\* the single-shot path of capturePhoto up to await imageCapture.takePhoto
SingleShot(s) == [s EXCEPT !.pc = "singleTake", !.single = "requested"]

\* captureBurstPhotos returns null and capturePhoto goes on to the single shot
ReturnNull(s) == SingleShot([s EXCEPT !.burst = "returned", !.ret = NullUrl])

\* the for loop from the test i < 3 at index j up to the next await
LoopFrom(s, j) ==
  IF j < BurstSize THEN IssueRequest(s, j)
  ELSE IF BurstExhausted(s.photos) THEN ReturnNull([s EXCEPT !.i = j])
  ELSE StartProcessing([s EXCEPT !.i = j])

\* if (bestPhoto) { setPhotoUrl(bestPhoto); return; } without the return
BurstDoneNoReturn(s, bestPhoto) ==
  [s EXCEPT !.burst = "returned", !.ret = bestPhoto, !.sets = @ + 1,
            !.pc = "singleTake", !.single = "requested"]

\* const bestPhoto = await captureBurstPhotos(); if (bestPhoto) {
\* setPhotoUrl(bestPhoto); return; }
BurstDone(s, bestPhoto) ==
  [s EXCEPT !.burst = "returned", !.ret = bestPhoto, !.sets = @ + 1,
            !.pc = "done"]

\* setPhotoUrl(result.dataUrl) after the single shot was processed
SingleDone(s) == [s EXCEPT !.pc = "done", !.single = "loaded", !.sets = @ + 1]

\* the catch block of the single shot with a video element: the frame is
\* drawn, enhanced and shown
FallbackDrawn(s) == [s EXCEPT !.pc = "done", !.fallback = "drawn", !.sets = @ + 1]

\* the catch block of the single shot without a video element:
\* if (!video) return
FallbackNoVideo(s) == [s EXCEPT !.pc = "done", !.fallback = "noVideo"]

\* the shutter button's onClick: capturePhoto up to its first await
Tap(t) ==
  /\ mounted
  /\ focusStatus # "focusing"
  /\ photoUrl = NullUrl
  /\ taps[t].pc = "idle"
  /\ IF ~streamRef.held
     THEN /\ taps' = [taps EXCEPT ![t].pc = "done"]
          /\ UNCHANGED photoUrl
     ELSE IF hasImageCapture
     THEN /\ taps' = [taps EXCEPT
                        ![t] = LoopFrom([taps[t] EXCEPT !.burst = "running"], 0)]
          /\ UNCHANGED photoUrl
     ELSE \* new window.ImageCapture(track) throws: Canvas fallback
          \E k \in Stills :
            /\ photoUrl' = canvasFallbackOf[VideoFrame(t, k)]
            /\ taps' = [taps EXCEPT ![t] = FallbackDrawn(taps[t])]
  /\ UNCHANGED <<mounted, pix, hasImageCapture, camPc, streamRef, error,
                 focusStatus, variant, applied, gyro>>

\* the photos array of the invocation every invocation would push onto, were
\* the array kept outside captureBurstPhotos
PushOntoShared(tps, t, blob) ==
  [u \in TapIds |-> IF tps[u].burst = "running" THEN PushPhoto(tps[u], blob)
                    ELSE tps[u]]

\* const photos = [] is a local of the invocation: the push of tap t changes
\* the photos of tap t only
PushOntoOwn(tps, t, blob) == [tps EXCEPT ![t] = PushPhoto(tps[t], blob)]

\* takePhoto of the burst resolves with still k: push, then start the timer
TakePhotoResolve(t, k) ==
  /\ taps[t].pc = "burstTake"
  /\ taps' = [PushOntoOwn(taps, t, Blob(t, taps[t].i, k)) EXCEPT
                ![t].settled = Append(@, "ok"), ![t].pc = "burstDelay"]
  /\ UNCHANGED <<mounted, pix, hasImageCapture, camPc, streamRef, error,
                 focusStatus, photoUrl, variant, applied, gyro>>

\* takePhoto of the burst rejects: the catch block, then the next iteration
TakePhotoReject(t) ==
  /\ taps[t].pc = "burstTake"
  /\ taps' = [taps EXCEPT
       ![t] = LoopFrom([taps[t] EXCEPT !.settled = Append(@, "fail")],
                       AfterReject(taps[t].i))]
  /\ UNCHANGED <<mounted, pix, hasImageCapture, camPc, streamRef, error,
                 focusStatus, photoUrl, variant, applied, gyro>>

\* the 100 ms timer fires: the next iteration
DelayElapsed(t) ==
  /\ taps[t].pc = "burstDelay"
  /\ taps' = [taps EXCEPT
       ![t] = LoopFrom([taps[t] EXCEPT !.timerRan = TRUE], taps[t].i + 1)]
  /\ UNCHANGED <<mounted, pix, hasImageCapture, camPc, streamRef, error,
                 focusStatus, photoUrl, variant, applied, gyro>>

\* where the fulfilled value of promise n goes in the result of Promise.all
Settle(slots, n, cand) == [slots EXCEPT ![n] = Fulfilled(cand)]

AllFulfilled(slots) == \A n \in 1..Len(slots) : slots[n].state = "fulfilled"

\* img.onload of photo n of the burst: the photo is processed and scored;
\* when it was the last one Promise.all resolves, the best is returned and
\* capturePhoto sets photoUrl
ImageLoad(t, n) ==
  /\ n \in 1..Len(taps[t].slots)
  /\ taps[t].slots[n].state = "loading"
  /\ LET s == taps[t]
         slots == Settle(s.slots, n, CandidateOf[s.photos[n]])
         s1 == [s EXCEPT !.slots = slots, !.order = Append(@, n)]
     IN IF AllFulfilled(slots)
        THEN LET processed == [m \in 1..Len(slots) |-> slots[m].cand]
                 best == Best(processed)
             IN /\ taps' = [taps EXCEPT ![t] = BurstDone(s1, best.dataUrl)]
                /\ photoUrl' = best.dataUrl
        ELSE /\ taps' = [taps EXCEPT ![t] = s1]
             /\ UNCHANGED photoUrl
  /\ UNCHANGED <<mounted, pix, hasImageCapture, camPc, streamRef, error,
                 focusStatus, variant, applied, gyro>>

\* the image of photo n fails to decode: processPhoto sets no onerror, its
\* promise stays pending
ImageError(t, n) ==
  /\ n \in 1..Len(taps[t].slots)
  /\ taps[t].slots[n].state = "loading"
  /\ taps' = [taps EXCEPT ![t].slots[n] = Broken]
  /\ UNCHANGED <<mounted, pix, hasImageCapture, camPc, streamRef, error,
                 focusStatus, photoUrl, variant, applied, gyro>>

(***************************************************************************)
(* capturePhoto: single shot and Canvas fallback                           *)
(***************************************************************************)
\* the blobs the single shot of a tap can capture, with the encoded output
\* capturePhoto gets for each
SingleBlobs == {SingleBlob(t, k) : t \in TapIds, k \in Stills}

\* the single shot delivered as captured, without the frame processor
SingleShotUrlRaw(blob) == toDataURL(drawImage(Decode(blob)), blob)

\* const result = await processPhoto(blob); setPhotoUrl(result.dataUrl)
SingleShotUrl(blob) == processPhoto(blob).dataUrl

SingleShotUrlOf == [blob \in SingleBlobs |-> SingleShotUrl(blob)]

\* takePhoto of the single shot resolves with still k: processPhoto starts
SingleResolve(t, k) ==
  /\ taps[t].pc = "singleTake"
  /\ taps' = [taps EXCEPT ![t].pc = "singleProcess", ![t].single = "loading",
                          ![t].singleBlob = SingleBlob(t, k)]
  /\ UNCHANGED <<mounted, pix, hasImageCapture, camPc, streamRef, error,
                 focusStatus, photoUrl, variant, applied, gyro>>

\* takePhoto of the single shot rejects: the Canvas fallback on the video
SingleReject(t) ==
  /\ taps[t].pc = "singleTake"
  /\ IF ~mounted
     THEN /\ taps' = [taps EXCEPT
                 ![t] = FallbackNoVideo([taps[t] EXCEPT !.single = "rejected"])]
          /\ UNCHANGED photoUrl
     ELSE /\ taps' = [taps EXCEPT
                 ![t] = FallbackDrawn([taps[t] EXCEPT !.single = "rejected"])]
          /\ \E k \in Stills : photoUrl' = canvasFallbackOf[VideoFrame(t, k)]
  /\ UNCHANGED <<mounted, pix, hasImageCapture, camPc, streamRef, error,
                 focusStatus, variant, applied, gyro>>

\* img.onload of the single shot
SingleLoad(t) ==
  /\ taps[t].pc = "singleProcess"
  /\ taps[t].single = "loading"
  /\ taps' = [taps EXCEPT ![t] = SingleDone(taps[t])]
  /\ photoUrl' = SingleShotUrlOf[taps[t].singleBlob]
  /\ UNCHANGED <<mounted, pix, hasImageCapture, camPc, streamRef, error,
                 focusStatus, variant, applied, gyro>>

\* the image of the single shot fails to decode: no onerror, nothing resumes
SingleError(t) ==
  /\ taps[t].pc = "singleProcess"
  /\ taps[t].single = "loading"
  /\ taps' = [taps EXCEPT ![t].single = "broken"]
  /\ UNCHANGED <<mounted, pix, hasImageCapture, camPc, streamRef, error,
                 focusStatus, photoUrl, variant, applied, gyro>>

(***************************************************************************)
(* Specifications                                                          *)
(***************************************************************************)
CameraStep ==
  \/ GetUserMediaResolve
  \/ GetUserMediaReject
  \/ PlayResolve
  \/ PlayReject
  \/ MacroResolve
  \/ MacroReject
  \/ ContinuousResolve
  \/ ContinuousReject

\* what the capture collaborator and the image decoder do for tap t
Settles(t) ==
  \/ \E k \in Stills : TakePhotoResolve(t, k)
  \/ TakePhotoReject(t)
  \/ \E n \in 1..BurstSize : ImageLoad(t, n)
  \/ \E n \in 1..BurstSize : ImageError(t, n)
  \/ \E k \in Stills : SingleResolve(t, k)
  \/ SingleReject(t)
  \/ SingleLoad(t)
  \/ SingleError(t)

TapStep(t) ==
  \/ Tap(t)
  \/ DelayElapsed(t)
  \/ Settles(t)

\* one shutter tap
Next ==
  \/ CameraStep
  \/ Unmount
  \/ Retake
  \/ TapStep(1)

Spec == Init /\ [][Next]_vars

\* the stills the capture collaborator delivers when two taps overlap: the
\* flat one and one with an edge
OverlapStills == {0, 1}

OverlapSettles(t) ==
  \/ \E k \in OverlapStills : TakePhotoResolve(t, k)
  \/ TakePhotoReject(t)
  \/ \E n \in 1..BurstSize : ImageLoad(t, n)
  \/ \E n \in 1..BurstSize : ImageError(t, n)
  \/ \E k \in OverlapStills : SingleResolve(t, k)
  \/ SingleReject(t)
  \/ SingleLoad(t)
  \/ SingleError(t)

\* two shutter taps, the second of which may be made while the first is in
\* flight
OverlapNext ==
  \/ CameraStep
  \/ Unmount
  \/ Retake
  \/ \E t \in TapIds : Tap(t)
  \/ \E t \in TapIds : DelayElapsed(t)
  \/ \E t \in TapIds : OverlapSettles(t)

OverlapSpec == Init /\ [][OverlapNext]_vars

\* every request, timer and image decode of the tap eventually settles
LiveSpec ==
  /\ Spec
  /\ WF_vars(CameraStep)
  /\ WF_vars(DelayElapsed(1))
  /\ WF_vars(Settles(1))

(***************************************************************************)
(* Properties of the burst selector                                        *)
(***************************************************************************)
NumOk(settled) == Cardinality({n \in 1..Len(settled) : settled[n] = "ok"})

AllFailed(s) ==
  /\ Len(s.settled) = BurstSize
  /\ \A n \in 1..Len(s.settled) : s.settled[n] = "fail"

\* the burst of s returned the picture of one of its candidates
ReturnedPhoto(s) == s.burst = "returned" /\ s.photos # <<>>

\* the array position of the candidate whose encoded output was returned
WinnerPos(s) ==
  CHOOSE n \in 1..Len(s.slots) : s.slots[n].cand.dataUrl = s.ret

\* the place of array position n in the order of completion
Place(order, n) == CHOOSE p \in 1..Len(order) : order[p] = n

\* C1: whenever a burst in which at least one capture succeeded returns, it
\* returns the encoded output of one of its candidates, and no candidate of
\* that burst has a sharpness score greater than that candidate's
C1_ReturnsSharpest ==
  \A t \in TapIds :
    ReturnedPhoto(taps[t]) =>
      \E n \in 1..Len(taps[t].slots) :
        /\ taps[t].slots[n].state = "fulfilled"
        /\ taps[t].ret = taps[t].slots[n].cand.dataUrl
        /\ taps[t].slots[n].cand.blob = taps[t].photos[n]
        /\ \A m \in 1..Len(taps[t].slots) :
             ~ScoreGreater(taps[t].slots[m].cand.sharpness,
                           taps[t].slots[n].cand.sharpness)

\* a burst of three stills whose sharpest one was captured second has returned
C1_Witness ==
  \E t \in TapIds :
    /\ ReturnedPhoto(taps[t])
    /\ Len(taps[t].photos) = BurstSize
    /\ taps[t].ret.src.idx = 1
    /\ \E m \in 1..Len(taps[t].slots) :
         ScoreGreater(taps[t].slots[WinnerPos(taps[t])].cand.sharpness,
                      taps[t].slots[m].cand.sharpness)

\* C2: when several candidates of a returned burst have the maximum score,
\* the returned one is the one captured first, whatever the order in which
\* the photos finished processing
C2_FirstOfEqualWins ==
  \A t \in TapIds :
    ReturnedPhoto(taps[t]) =>
      \A m \in 1..Len(taps[t].slots) :
        ScoreEqual(taps[t].slots[m].cand.sharpness,
                   taps[t].slots[WinnerPos(taps[t])].cand.sharpness)
          => taps[t].ret.src.idx <= taps[t].photos[m].idx

\* a returned burst with two candidates of the maximum score, the later
\* captured of which finished processing first
C2_Witness ==
  \E t \in TapIds :
    /\ ReturnedPhoto(taps[t])
    /\ \E m \in 1..Len(taps[t].slots) :
         /\ m > WinnerPos(taps[t])
         /\ ScoreEqual(taps[t].slots[m].cand.sharpness,
                       taps[t].slots[WinnerPos(taps[t])].cand.sharpness)
         /\ Place(taps[t].order, m) < Place(taps[t].order, WinnerPos(taps[t]))

\* C3: when all the capture requests of a burst have failed the burst has
\* returned null: it has no photo, started no processing, has no candidate,
\* and the picture in photoUrl, if any, is none of that burst
C3_AllFailReturnsNull ==
  \A t \in TapIds :
    AllFailed(taps[t]) =>
      /\ taps[t].burst = "returned"
      /\ taps[t].ret = NullUrl
      /\ taps[t].photos = <<>>
      /\ taps[t].slots = <<>>
      /\ taps[t].order = <<>>
      /\ photoUrl # NullUrl =>
           ~(photoUrl.src.kind = "burst" /\ photoUrl.src.tap = t)

\* a burst all of whose capture requests failed
C3_Witness == \E t \in TapIds : AllFailed(taps[t])

\* the burst is past its capture loop
LoopExited(s) == s.pc = "burstProcess" \/ s.burst = "returned"

\* C4: a burst issues its requests at the loop indexes 0, 1, 2, each once
\* (a failed one is not issued again), it has issued and got back exactly
\* BurstSize requests when its loop is over, its photos are as many as the
\* requests that succeeded and so are the candidates of a finished burst
C4_ExactlyBurstSizeRequests ==
  \A t \in TapIds :
    /\ Len(taps[t].issued) <= BurstSize
    /\ \A n \in 1..Len(taps[t].issued) : taps[t].issued[n].i = n - 1
    /\ Len(taps[t].photos) = NumOk(taps[t].settled)
    /\ LoopExited(taps[t]) =>
         /\ Len(taps[t].issued) = BurstSize
         /\ Len(taps[t].settled) = BurstSize
         /\ Len(taps[t].slots) = NumOk(taps[t].settled)
    /\ taps[t].burst = "returned" =>
         Cardinality({n \in 1..Len(taps[t].slots) :
                        taps[t].slots[n].state = "fulfilled"})
           = NumOk(taps[t].settled)

\* a burst that returned after a failed request followed by a successful one
C4_Witness ==
  \E t \in TapIds :
    /\ taps[t].burst = "returned"
    /\ Len(taps[t].settled) = BurstSize
    /\ taps[t].settled[1] = "fail"
    /\ taps[t].settled[2] = "ok"
    /\ taps[t].settled[3] = "fail"

\* C5: a burst has at most one capture request outstanding, and has one
\* exactly while it is suspended in takePhoto: request i+1 is issued only
\* after request i was delivered
C5_OneOutstanding ==
  \A t \in TapIds :
    /\ Len(taps[t].settled) <= Len(taps[t].issued)
    /\ Len(taps[t].issued) - Len(taps[t].settled) <= 1
    /\ taps[t].pc = "burstTake"
         <=> Len(taps[t].issued) = Len(taps[t].settled) + 1

\* the second request of a burst is outstanding, the first was delivered
C5_Witness ==
  \E t \in TapIds :
    Len(taps[t].issued) = 2 /\ Len(taps[t].settled) = 1

\* the candidate of the photo captured at loop index j has been processed
Processed(s, j) ==
  \E m \in 1..Len(s.slots) :
    s.slots[m].state = "fulfilled" /\ s.slots[m].cand.blob.idx = j

\* C6 as stated: when request i+1 of a burst is issued the candidate of
\* request i has been processed to completion
C6_Original ==
  \A t \in TapIds :
    \A n \in 2..Len(taps[t].issued) :
      taps[t].settled[n - 1] = "ok" => Processed(taps[t], n - 2)

\* C6 amended: the processing of the photos of a burst starts only when all
\* BurstSize capture requests have been issued and delivered; no capture is
\* requested once a photo is being processed
C6_ProcessingAfterCaptures ==
  \A t \in TapIds :
    taps[t].slots # <<>> =>
      /\ Len(taps[t].issued) = BurstSize
      /\ Len(taps[t].settled) = BurstSize
      /\ taps[t].pc \notin {"burstTake", "burstDelay"}

\* the first photo of a burst of three photos has been processed
C6_Witness ==
  \E t \in TapIds :
    /\ Len(taps[t].photos) = BurstSize
    /\ Processed(taps[t], 0)
    /\ taps[t].slots[BurstSize].state = "loading"

\* C7: every capture request of a burst but the first is issued after the
\* inter-capture timer ran since the request before it
C7_DelayBetweenRequests ==
  \A t \in TapIds :
    \A n \in 2..Len(taps[t].issued) : taps[t].issued[n].afterDelay

(***************************************************************************)
(* Properties of capturePhoto                                              *)
(***************************************************************************)
\* the filters of the frame processor, in its order
Enhanced == <<"gamma", "usm">>

\* photoUrl shows the single shot of tap t
ShowsSingleShot(t) ==
  /\ photoUrl # NullUrl
  /\ photoUrl.src.kind = "single"
  /\ photoUrl.src.tap = t

\* C8 as stated: the picture of the single shot that follows a failed burst
\* is delivered to photoUrl with neither gamma correction nor unsharp mask
C8_Original ==
  \A t \in TapIds : ShowsSingleShot(t) => photoUrl.ops = <<>>

\* C8 amended: when the burst reports failure capturePhoto requests a single
\* direct capture, and the picture of that capture, when it is delivered to
\* photoUrl, is the captured still after the frame processor: gamma
\* correction, then unsharp mask
C8_FallbackIsEnhanced ==
  \A t \in TapIds :
    /\ (taps[t].burst = "returned" /\ taps[t].ret = NullUrl)
         <=> taps[t].single # "none"
    /\ ShowsSingleShot(t) =>
         /\ taps[t].single = "loaded"
         /\ photoUrl.src = taps[t].singleBlob
         /\ photoUrl.ops = Enhanced
         /\ photoUrl.data = processPhoto(taps[t].singleBlob).canvas.data
         /\ photoUrl.data # Decode(taps[t].singleBlob).data

\* the single shot of a tap whose burst failed is shown
C8_Witness ==
  \E t \in TapIds : AllFailed(taps[t]) /\ ShowsSingleShot(t)

\* C9: every picture in photoUrl, from the burst, from the single shot or
\* from the Canvas fallback, has had the gamma correction and then the
\* unsharp mask drawn onto it, each once and nothing else
C9_GammaThenSharpen == photoUrl # NullUrl => photoUrl.ops = Enhanced

\* a burst winner is shown
C9_Witness == photoUrl # NullUrl /\ photoUrl.src.kind = "burst"

\* C10: every burst that was started eventually returns
C10_BurstReturns ==
  \A t \in TapIds :
    (taps[t].burst = "running") ~> (taps[t].burst = "returned")

(***************************************************************************)
(* Overlapping bursts                                                      *)
(***************************************************************************)
\* C11: the bursts of two taps do not interfere: the photos of a burst are
\* the stills its own requests delivered, as many as its own requests that
\* succeeded, its candidates are made of its own photos, and what it returns
\* is the encoded output of a candidate of its own that none of its own
\* candidates outscores
C11_BurstsIndependent ==
  \A t \in TapIds :
    /\ Len(taps[t].photos) = NumOk(taps[t].settled)
    /\ \A n \in 1..Len(taps[t].photos) :
         taps[t].photos[n].kind = "burst" /\ taps[t].photos[n].tap = t
    /\ \A n \in 1..Len(taps[t].slots) :
         taps[t].slots[n].state = "fulfilled"
           => taps[t].slots[n].cand.blob = taps[t].photos[n]
    /\ ReturnedPhoto(taps[t]) =>
         /\ taps[t].ret.src.tap = t
         /\ taps[t].ret = taps[t].slots[WinnerPos(taps[t])].cand.dataUrl
         /\ \A m \in 1..Len(taps[t].slots) :
              ~ScoreGreater(taps[t].slots[m].cand.sharpness,
                            taps[t].slots[WinnerPos(taps[t])].cand.sharpness)

\* the burst of one tap has returned its winner, which is shown, while the
\* burst of the other tap, started before, holds photos of its own
C11_Witness ==
  \E t \in TapIds : \E u \in TapIds \ {t} :
    /\ ReturnedPhoto(taps[t])
    /\ photoUrl = taps[t].ret
    /\ taps[u].burst = "running"
    /\ Len(taps[u].photos) >= 2
    /\ taps[u].photos[1].still # taps[t].photos[1].still

(***************************************************************************)
(* Candidates                                                              *)
(***************************************************************************)
\* the candidate cand is all made of the captured still blob
OfOneStill(cand, blob) ==
  /\ cand.blob = blob
  /\ cand.dataUrl.src = blob
  /\ cand.canvas.width = Decode(blob).width
  /\ cand.canvas.height = Decode(blob).height
  /\ cand.canvas.ops = Enhanced
  /\ cand.canvas.data
       = applyUnsharpMask(
           applyGammaCorrection(drawImage(Decode(blob)), 11), 12, 8, 5).data
  /\ cand.dataUrl.data = cand.canvas.data
  /\ cand.dataUrl.ops = cand.canvas.ops
  /\ cand.sharpness = calculateSharpness(getImageData(cand.canvas))

\* C12: the score, the processed buffer and the encoded output of every
\* candidate come from the one still captured at its place in the burst, the
\* score being that of the processed buffer, and the burst returns the
\* encoded output of the candidate whose score won
C12_CandidateOfOneStill ==
  \A t \in TapIds :
    /\ \A n \in 1..Len(taps[t].slots) :
         taps[t].slots[n].state = "fulfilled"
           => OfOneStill(taps[t].slots[n].cand, taps[t].photos[n])
    /\ ReturnedPhoto(taps[t]) =>
         /\ taps[t].ret = Best([m \in 1..Len(taps[t].slots) |->
                                  taps[t].slots[m].cand]).dataUrl
         /\ taps[t].ret.src = taps[t].photos[WinnerPos(taps[t])]

\* a burst of several photos has returned a winner whose score as processed
\* is not the score of the still as captured
C12_Witness ==
  \E t \in TapIds :
    /\ ReturnedPhoto(taps[t])
    /\ Len(taps[t].photos) >= 2
    /\ taps[t].slots[WinnerPos(taps[t])].cand.sharpness
         # calculateSharpness(Decode(taps[t].ret.src))

(***************************************************************************)
(* The pixel functions on their own: one call of applyGammaCorrection,     *)
(* applyUnsharpMask or calculateSharpness on a canvas of a few pixels      *)
(***************************************************************************)
\* canvases are up to MaxDim pixels wide and high
MaxDim == 4

Patterns == {"flat", "checker", "dot", "greenEdge", "ramp"}

\* channel c (0 red .. 3 alpha) of the pixel (x, y) of a pattern
PatternValue(pattern, x, y, c) ==
  CASE pattern = "flat" -> IF c = 3 THEN 255 ELSE 128
    [] pattern = "checker" ->
         IF c = 3 THEN 255 ELSE IF (x + y) % 2 = 0 THEN 255 ELSE 0
    [] pattern = "dot" ->
         IF c = 3 THEN 200 ELSE IF x = 1 /\ y = 1 THEN 107 ELSE 100
    [] pattern = "greenEdge" ->
         IF c = 0 THEN 100
         ELSE IF c = 1 THEN (IF x % 2 = 0 THEN 200 ELSE 20)
         ELSE IF c = 2 THEN 50
         ELSE 128
    [] pattern = "ramp" ->
         IF c = 3 THEN (40 * x + 80 * y) % 256
         ELSE (37 * x + 91 * y + 13 * c) % 256

PatternCanvas(pattern, w, h) ==
  [width |-> w, height |-> h, ops |-> <<>>,
   data |-> [j \in 1..(4 * w * h) |->
               LET q == (j - 1) \div 4
               IN PatternValue(pattern, q % w, q \div w, (j - 1) % 4)]]

\* the canvas of one pixel whose red value is v
LevelCanvas(v) ==
  [width |-> 1, height |-> 1, ops |-> <<>>,
   data |-> <<v, 255 - v, (7 * v) % 256, v>>]

PatternCanvases ==
  {PatternCanvas(p, w, h) : p \in Patterns, w \in 1..MaxDim, h \in 1..MaxDim}

LevelCanvases == {LevelCanvas(v) : v \in 0..255}

\* the arguments of the calls: gamma, amount and radius in tenths
Gammas == {-10, 0, 5, 10, 11, 20}

Amounts == {-10, 0, 12, 30}

Radii == {-10, 0, 8}

Thresholds == {0, 5}

NoScore == [num |-> 0, den |-> 1]

Call(op, canvas, gamma10, amount10, radius10, threshold) ==
  [stage |-> "called", op |-> op, canvas |-> canvas, gamma10 |-> gamma10,
   amount10 |-> amount10, radius10 |-> radius10, threshold |-> threshold,
   outcome |-> "pending", out |-> canvas, score |-> NoScore]

Calls ==
  {Call("gamma", c, g, 0, 0, 0) :
     c \in PatternCanvases \cup LevelCanvases, g \in Gammas}
  \cup {Call("usm", c, 0, a, r, th) :
          c \in PatternCanvases, a \in Amounts, r \in Radii, th \in Thresholds}
  \cup {Call("score", c, 0, 0, 0, 0) : c \in PatternCanvases}

PixelInit ==
  /\ mounted = TRUE
  /\ hasImageCapture = TRUE
  /\ camPc = "getUserMedia"
  /\ streamRef = NoStream
  /\ error = FALSE
  /\ focusStatus = "focusing"
  /\ photoUrl = NullUrl
  /\ taps = [t \in TapIds |-> IdleTap]
  /\ pix \in Calls
  /\ variant = "postProcessing"
  /\ applied = <<>>
  /\ gyro = GyroStart("none")

\* applyGammaCorrection(ctx, canvas, gamma) runs to its end
RunGamma ==
  /\ pix.stage = "called"
  /\ pix.op = "gamma"
  /\ pix' = [pix EXCEPT !.stage = "returned", !.outcome = "returned",
                        !.out = applyGammaCorrection(pix.canvas, pix.gamma10)]
  /\ UNCHANGED <<mounted, hasImageCapture, camPc, streamRef, error,
                 focusStatus, photoUrl, taps, variant, applied, gyro>>

\* applyUnsharpMask(ctx, canvas, amount, radius, threshold) runs to its end
RunUnsharpMask ==
  /\ pix.stage = "called"
  /\ pix.op = "usm"
  /\ pix' = [pix EXCEPT !.stage = "returned", !.outcome = "returned",
                        !.out = applyUnsharpMask(pix.canvas, pix.amount10,
                                                 pix.radius10, pix.threshold)]
  /\ UNCHANGED <<mounted, hasImageCapture, camPc, streamRef, error,
                 focusStatus, photoUrl, taps, variant, applied, gyro>>

\* calculateSharpness(imageData) returns
RunSharpness ==
  /\ pix.stage = "called"
  /\ pix.op = "score"
  /\ pix' = [pix EXCEPT !.stage = "returned", !.outcome = "returned",
                        !.score = calculateSharpness(getImageData(pix.canvas))]
  /\ UNCHANGED <<mounted, hasImageCapture, camPc, streamRef, error,
                 focusStatus, photoUrl, taps, variant, applied, gyro>>

PixelNext ==
  \/ RunGamma
  \/ RunUnsharpMask
  \/ RunSharpness

PixelSpec == PixelInit /\ [][PixelNext]_vars

\* the call followed has returned from op
Returned(op) == pix.stage = "returned" /\ pix.op = op

\* the places of the red, green and blue values in the data of a canvas
ColourPlaces(canvas) == {j \in 1..Len(canvas.data) : j % 4 # 0}

AlphaPlaces(canvas) == {j \in 1..Len(canvas.data) : j % 4 = 0}

\* the call followed was given a parameter out of its range
OutOfRange ==
  \/ Returned("gamma") /\ pix.gamma10 <= 0
  \/ Returned("usm") /\ pix.radius10 < 0

\* C13: a call of the tone corrector with gamma <= 0, or of the detail
\* enhancer with a negative radius, ends with an error and leaves the data
\* of the canvas as they were
C13_RejectsOutOfRange ==
  OutOfRange => pix.outcome = "error" /\ pix.out.data = pix.canvas.data

\* the blurred copy the call followed works with
BlurredOfCall == Blur(pix.canvas, pix.radius10)

\* the difference original - blurred at place j of the call followed
DiffAt(j) == pix.canvas.data[j] - BlurredOfCall[j]

SharpenedAt(j) ==
  Sharpened(pix.canvas.data[j], BlurredOfCall[j], pix.amount10)

\* C14: the detail enhancer sharpens a colour value exactly when the
\* absolute difference of its original and blurred values is at least the
\* threshold, and leaves it as it was otherwise
C14_ThresholdInclusive ==
  Returned("usm") =>
    \A j \in ColourPlaces(pix.canvas) :
      pix.out.data[j] = IF Abs(DiffAt(j)) >= pix.threshold
                        THEN SharpenedAt(j) ELSE pix.canvas.data[j]

\* C15: whether the detail enhancer sharpens a colour value is decided by
\* the difference of that value's own channel: above the threshold it is
\* sharpened, below it is left as it was
C15_PerChannelDecision ==
  Returned("usm") =>
    \A j \in ColourPlaces(pix.canvas) :
      /\ Abs(DiffAt(j)) > pix.threshold => pix.out.data[j] = SharpenedAt(j)
      /\ Abs(DiffAt(j)) < pix.threshold
           => pix.out.data[j] = pix.canvas.data[j]

\* C16: the detail enhancer called with amount 0 returns the canvas with the
\* data, width and height it was given, whatever the radius and threshold
C16_ZeroAmountIdentity ==
  (Returned("usm") /\ pix.amount10 = 0) =>
    /\ pix.out.data = pix.canvas.data
    /\ pix.out.width = pix.canvas.width
    /\ pix.out.height = pix.canvas.height

\* a call with amount 0 on a canvas that the blur changes, with values that
\* pass the threshold test
C16_Witness ==
  /\ Returned("usm")
  /\ pix.amount10 = 0
  /\ pix.radius10 > 0
  /\ \E j \in ColourPlaces(pix.canvas) :
       j % 4 = 1 /\ Abs(DiffAt(j)) > pix.threshold

\* C17: every red, green and blue value the detail enhancer and the tone
\* corrector leave in the canvas lies in 0..255
C17_ChannelsInRange ==
  (Returned("usm") \/ Returned("gamma")) =>
    \A j \in ColourPlaces(pix.out) : pix.out.data[j] \in 0..255

\* a call of the detail enhancer on a checkerboard where the sharpened value
\* of one place is above 255 and of another below 0 before clamping
C17_Witness ==
  /\ Returned("usm")
  /\ \E j \in ColourPlaces(pix.canvas) :
       /\ j % 4 = 1
       /\ Abs(DiffAt(j)) > pix.threshold
       /\ 10 * pix.canvas.data[j] + DiffAt(j) * pix.amount10 > 2550
  /\ \E j \in ColourPlaces(pix.canvas) :
       /\ j % 4 = 1
       /\ Abs(DiffAt(j)) > pix.threshold
       /\ 10 * pix.canvas.data[j] + DiffAt(j) * pix.amount10 < 0

\* C18: the tone corrector and the detail enhancer leave every alpha value,
\* the width and the height of the canvas as they were
C18_AlphaUnchanged ==
  (Returned("usm") \/ Returned("gamma")) =>
    /\ Len(pix.out.data) = Len(pix.canvas.data)
    /\ pix.out.width = pix.canvas.width
    /\ pix.out.height = pix.canvas.height
    /\ \A j \in AlphaPlaces(pix.canvas) :
         pix.out.data[j] = pix.canvas.data[j]

\* a call of the tone corrector that changed colour values of a canvas
\* with alpha values the tone curve would change
C18_Witness ==
  /\ Returned("gamma")
  /\ pix.out.data # pix.canvas.data
  /\ \E j \in AlphaPlaces(pix.canvas) :
       GammaValue(pix.canvas.data[j], pix.gamma10) # pix.canvas.data[j]

\* C19: with a gamma of 1 or more the tone corrector lowers no colour value,
\* with a gamma in (0, 1] it raises none, so that gamma 1 changes none
C19_GammaMonotone ==
  (Returned("gamma") /\ pix.gamma10 > 0) =>
    \A j \in ColourPlaces(pix.canvas) :
      /\ pix.gamma10 >= 10 => pix.out.data[j] >= pix.canvas.data[j]
      /\ pix.gamma10 <= 10 => pix.out.data[j] <= pix.canvas.data[j]

\* a call with gamma 2 that raised a value
C19_Witness ==
  /\ Returned("gamma")
  /\ pix.gamma10 = 20
  /\ pix.out.data[1] > pix.canvas.data[1]

\* the luminance of the pixel (x, y), in thousandths
Luma(img, x, y) ==
  LET p == 4 * (y * img.width + x)
  IN 299 * img.data[p + 1] + 587 * img.data[p + 2] + 114 * img.data[p + 3]

\* the interior pixels: those with all four neighbours in the image
Interior(img) ==
  {c \in (0..(img.width - 1)) \X (0..(img.height - 1)) :
     /\ c[1] - 1 >= 0 /\ c[1] + 1 <= img.width - 1
     /\ c[2] - 1 >= 0 /\ c[2] + 1 <= img.height - 1}

EdgeEnergy(img, x, y) ==
  Abs(4 * Luma(img, x, y) - Luma(img, x - 1, y) - Luma(img, x + 1, y)
      - Luma(img, x, y - 1) - Luma(img, x, y + 1))

RECURSIVE SumEdgeEnergy(_, _)
SumEdgeEnergy(img, cells) ==
  IF cells = {} THEN 0
  ELSE LET c == CHOOSE d \in cells : TRUE
       IN EdgeEnergy(img, c[1], c[2]) + SumEdgeEnergy(img, cells \ {c})

\* C20: on an image with interior pixels calculateSharpness returns the sum
\* of |4Y(x,y) - Y(x-1,y) - Y(x+1,y) - Y(x,y-1) - Y(x,y+1)| over the
\* (width-2)(height-2) interior pixels divided by their number, and its
\* result is never negative
C20_MeanLaplacian ==
  Returned("score") =>
    /\ pix.score.num >= 0
    /\ pix.score.den > 0
    /\ (pix.canvas.width >= 3 /\ pix.canvas.height >= 3) =>
         /\ Cardinality(Interior(pix.canvas))
              = (pix.canvas.width - 2) * (pix.canvas.height - 2)
         /\ pix.score.den = (pix.canvas.width - 2) * (pix.canvas.height - 2)
         /\ pix.score.num = SumEdgeEnergy(pix.canvas, Interior(pix.canvas))

\* the score of a canvas with four interior pixels and edges
C20_Witness ==
  /\ Returned("score")
  /\ pix.canvas.width = 4
  /\ pix.canvas.height = 4
  /\ pix.score.den = 4
  /\ pix.score.num > 0

\* C21: on an image less than 3 pixels wide or less than 3 pixels high
\* calculateSharpness returns 0, and it does so without dividing by the
\* number of interior pixels, which is zero
C21_DegenerateScoresZero ==
  (Returned("score") /\ (pix.canvas.width < 3 \/ pix.canvas.height < 3)) =>
    /\ Interior(pix.canvas) = {}
    /\ pix.score.den # 0
    /\ pix.score.num = 0

\* the score of a checkerboard 2 pixels wide and 4 high
C21_Witness ==
  /\ Returned("score")
  /\ pix.canvas = PatternCanvas("checker", 2, 4)
  /\ pix.score = [num |-> 0, den |-> 1]

(***************************************************************************)
(* The three capture paths of one shutter tap                              *)
(***************************************************************************)
\* imageCapture.takePhoto of the single shot has been called
SingleRequested(s) ==
  s.single \in {"requested", "loading", "loaded", "broken", "rejected"}

\* the single-shot path has failed: no ImageCapture object could be made, or
\* its takePhoto rejected
SingleFailed(s) == ~hasImageCapture \/ s.single = "rejected"

\* C23: in one capturePhoto call the single-shot takePhoto is requested only
\* after the burst has returned no photo, the Canvas fallback runs only
\* after the single-shot path has failed, and setPhotoUrl is called at most
\* once: by the burst, by the single shot or by the Canvas fallback
C23_PathsInOrder ==
  \A t \in TapIds :
    LET s == taps[t]
    IN /\ SingleRequested(s) => s.burst = "returned" /\ s.ret = NullUrl
       /\ s.fallback # "none" => SingleFailed(s)
       /\ s.fallback # "none" /\ hasImageCapture =>
            s.burst = "returned" /\ s.ret = NullUrl
       /\ s.sets <= 1
       /\ s.sets = 1 =>
            \/ s.ret # NullUrl /\ s.single = "none" /\ s.fallback = "none"
            \/ s.single = "loaded" /\ s.fallback = "none"
            \/ s.fallback = "drawn"

\* a tap that went through all three: every capture of the burst failed, the
\* single shot was rejected, the Canvas fallback set the picture
C23_Witness ==
  \E t \in TapIds :
    /\ AllFailed(taps[t])
    /\ taps[t].single = "rejected"
    /\ taps[t].fallback = "drawn"
    /\ taps[t].sets = 1
    /\ photoUrl # NullUrl

(***************************************************************************)
(* Retake                                                                  *)
(***************************************************************************)
\* C30: the picture shown is never one set by a capturePhoto call that was
\* already in flight when retake was last pressed: after a retake photoUrl
\* becomes non-null only through a shutter tap made after that retake
C30_RetakeClearsInFlight ==
  photoUrl # NullUrl => ~taps[photoUrl.src.tap].stale

(***************************************************************************)
(* focusStatus                                                             *)
(***************************************************************************)
\* the outcomes of the two applyConstraints calls of applyOptimalSettings
FocusOutcomes ==
  Outcomes(applied, "macro") \cup Outcomes(applied, "continuous")

BothFailed ==
  /\ Outcomes(applied, "macro") = {"failed"}
  /\ Outcomes(applied, "continuous") = {"failed"}

\* some capturePhoto call starts in this step
SomeTapStarts ==
  \E t \in TapIds : taps[t].pc = "idle" /\ taps'[t].pc # "idle"

\* C28: focusStatus starts as 'focusing', and no shutter tap starts a capture
\* while it is 'focusing'; once the stream is obtained and playing it
\* eventually is 'focused' or 'error': 'focused' when the macro or the
\* continuous applyConstraints call succeeded, 'error' when both failed; it
\* never goes back to 'focusing'; a failed applyConstraints call never sets
\* the camera error message
C28_FocusStatus ==
  /\ focusStatus = "focusing"
  /\ [][SomeTapStarts => focusStatus # "focusing"]_vars
  /\ (camPc = "macro") ~> (focusStatus \in {"focused", "error"})
  /\ []("ok" \in FocusOutcomes => focusStatus = "focused")
  /\ [](BothFailed => focusStatus = "error")
  /\ [][focusStatus # "focusing" => focusStatus' # "focusing"]_vars
  /\ []("failed" \in FocusOutcomes => ~error)

\* both calls failed: focusStatus is 'error', no error message is shown, and
\* the shutter starts a capture
C28_Witness ==
  /\ BothFailed
  /\ focusStatus = "error"
  /\ ~error
  /\ \E t \in TapIds : taps[t].pc # "idle"

(***************************************************************************)
(* Unmount                                                                 *)
(***************************************************************************)
\* C25: once the component is unmounted, a camera stream startCamera has
\* obtained, whether before the unmount or from a getUserMedia request that
\* was still pending at the unmount, eventually has its tracks stopped
C25_TracksStoppedAfterUnmount ==
  (~mounted /\ streamRef.held) ~> streamRef.stopped

(***************************************************************************)
(* The orientation effect of the post-processing component on its own      *)
(***************************************************************************)
GyroInit ==
  /\ mounted = TRUE
  /\ hasImageCapture = TRUE
  /\ camPc = "getUserMedia"
  /\ streamRef = NoStream
  /\ error = FALSE
  /\ focusStatus = "focusing"
  /\ photoUrl = NullUrl
  /\ taps = [t \in TapIds |-> IdleTap]
  /\ pix = NoCall
  /\ variant = "postProcessing"
  /\ applied = <<>>
  /\ gyro \in {GyroStart(api) : api \in OrientationApis}

\* DeviceOrientationEvent.requestPermission() resolves with 'granted'
RequestPermissionGranted ==
  /\ gyro.tracking = "pending"
  /\ gyro' = startGyroTracking(gyro)
  /\ UNCHANGED <<mounted, pix, hasImageCapture, camPc, streamRef, error,
                 focusStatus, photoUrl, taps, variant, applied>>

\* it resolves with another response, or rejects: no tracking
RequestPermissionDenied ==
  /\ gyro.tracking = "pending"
  /\ gyro' = [gyro EXCEPT !.tracking = "denied"]
  /\ UNCHANGED <<mounted, pix, hasImageCapture, camPc, streamRef, error,
                 focusStatus, photoUrl, taps, variant, applied>>

\* movement < 0.5 for the angles in quarters of a degree: the square of
\* Math.sqrt(deltaBeta * deltaBeta + deltaGamma * deltaGamma) against 2 * 2
MovedLess(beta, gamma, lastBeta, lastGamma) ==
  (beta - lastBeta) * (beta - lastBeta)
    + (gamma - lastGamma) * (gamma - lastGamma) < 4

\* the deviceorientation event with the angles beta and gamma is delivered to
\* handleOrientation
handleOrientation(beta, gamma) ==
  /\ gyro.tracking = "registered"
  /\ gyro.samples < MaxSamples
  /\ LET less == MovedLess(beta, gamma, gyro.lastBeta, gyro.lastGamma)
         stableCount == IF ~gyro.hasLast THEN gyro.stableCount
                        ELSE IF less THEN gyro.stableCount + 1
                        ELSE 0
         isStable == IF ~gyro.hasLast THEN gyro.isStable
                     ELSE IF less
                     THEN (IF stableCount > StableCountLimit THEN TRUE
                           ELSE gyro.isStable)
                     ELSE FALSE
     IN gyro' = [gyro EXCEPT
                   !.stableCount = stableCount,
                   !.isStable = isStable,
                   !.hasLast = TRUE,
                   !.lastBeta = beta,
                   !.lastGamma = gamma,
                   !.gyroRef = [x |-> beta, y |-> gamma],
                   !.run = IF gyro.hasLast /\ less THEN @ + 1 ELSE 0,
                   !.samples = @ + 1,
                   !.late = IF mounted THEN @ ELSE @ + 1]
  /\ UNCHANGED <<mounted, pix, hasImageCapture, camPc, streamRef, error,
                 focusStatus, photoUrl, taps, variant, applied>>

GyroNext ==
  \/ RequestPermissionGranted
  \/ RequestPermissionDenied
  \/ \E beta \in Angles, gamma \in Angles : handleOrientation(beta, gamma)
  \/ Unmount

GyroSpec == GyroInit /\ [][GyroNext]_vars

\* C24: while the handler is registered, isStable is true exactly when the
\* latest 10 or more orientation samples in a row each moved less than 0.5
\* degrees from the sample before; after a sample that moved 0.5 degrees or
\* more isStable is false and the count is 0
C24_StableAfterTen ==
  gyro.samples >= 2 =>
    /\ gyro.isStable <=> gyro.run >= 10
    /\ gyro.run = 0 => ~gyro.isStable /\ gyro.stableCount = 0

\* C27: once the component is unmounted the deviceorientation handler is not
\* registered, and no orientation event has been handled since the unmount
C27_HandlerRemovedOnUnmount ==
  ~mounted => gyro.tracking # "registered" /\ gyro.late = 0

(***************************************************************************)
(* The other Camera components: the basic one, the one of Camera.jsx with  *)
(* its 800 ms and 300 ms focus timers, the balanced one with enhanceImage  *)
(* and a 200 ms timer, and the two with a 500 ms timer                     *)
(***************************************************************************)
Variants == {"basic", "idCard", "balanced", "macro12", "macro5"}

\* the second argument of canvas.toDataURL('image/jpeg', q), in hundredths
Quality(v) == IF v \in {"basic", "macro12"} THEN 95 ELSE 98

\* (data[i] - 128) * contrast + 128 + brightness with contrast 1.05 and
\* brightness 8, as stored into the Uint8ClampedArray
EnhancedValue(v) == ToUint8Clamped((v - 128) * 105 + 13600, 100)

\* enhanceImage(ctx, canvas)
enhanceImage(canvas) ==
  [canvas EXCEPT
     !.data = [j \in 1..Len(canvas.data) |->
                 IF j % 4 = 0 THEN canvas.data[j]
                 ELSE EnhancedValue(canvas.data[j])],
     !.ops = Append(canvas.ops, "enhance")]

\* URL.createObjectURL(blob)
createObjectURL(blob) == [format |-> "blob", src |-> blob]

\* the body of img.onload in capturePhoto of the balanced component
enhancedDataUrl(blob) ==
  [toDataURL(enhanceImage(drawImage(Decode(blob))), blob)
     EXCEPT !.quality = 98]

\* the catch block of capturePhoto on the video frame
variantFallback(v, frame) ==
  LET drawn == drawImage(Decode(frame))
      canvas == IF v = "balanced" THEN enhanceImage(drawn) ELSE drawn
  IN [toDataURL(canvas, frame) EXCEPT !.quality = Quality(v)]

enhancedDataUrlOf == [blob \in SingleBlobs |-> enhancedDataUrl(blob)]

variantFallbackOf ==
  [v \in Variants |-> [frame \in VideoFrames |-> variantFallback(v, frame)]]

VariantInit ==
  /\ mounted = TRUE
  /\ hasImageCapture \in BOOLEAN
  /\ camPc = "getUserMedia"
  /\ streamRef = NoStream
  /\ error = FALSE
  /\ focusStatus = "focusing"
  /\ photoUrl = NullUrl
  /\ taps = [t \in TapIds |-> IdleTap]
  /\ pix = NoCall
  /\ variant \in Variants
  /\ applied = <<>>
  /\ gyro = GyroStart("none")

\* the promise of the applyConstraints call named call settles
SettledCall(log, call, outcome) ==
  [n \in 1..Len(log) |->
     IF log[n].call = call /\ log[n].outcome = "pending"
     THEN [log[n] EXCEPT !.outcome = outcome]
     ELSE log[n]]

\* the applyConstraints call the callback of each setTimeout makes
TimerCall(pc) ==
  CASE pc = "timer800" -> "focus5cm"
    [] pc = "timer300" -> "refocus"
    [] pc = "timer500" -> "macro"
    [] pc = "timer200" -> "lock"

\* the applyConstraints call startCamera or a timer callback is awaiting
PendingCall(pc) ==
  CASE pc = "applyBasic" -> "continuous"
    [] pc = "apply800" -> "focus5cm"
    [] pc = "apply300" -> "refocus"
    [] pc = "applyFallback" -> "fallback"
    [] pc = "apply500" -> "macro"
    [] pc = "applyDistance" -> "distance"
    [] pc = "applyMacro" -> "macroOnly"
    [] pc = "applyContinuous" -> "continuousOnly"
    [] pc = "apply200" -> "lock"

\* where the timer callback awaits its call
TimerApply(pc) ==
  CASE pc = "timer800" -> "apply800"
    [] pc = "timer300" -> "apply300"
    [] pc = "timer500" -> "apply500"
    [] pc = "timer200" -> "apply200"

TimerPcs == {"timer800", "timer300", "timer500", "timer200"}

ApplyPcs ==
  {"applyBasic", "apply800", "apply300", "applyFallback", "apply500",
   "applyDistance", "applyMacro", "applyContinuous", "apply200"}

\* where the code goes on when the awaited call resolves
AfterResolve(pc) ==
  CASE pc = "apply800" -> "timer300"
    [] pc \in {"applyDistance", "applyMacro", "applyContinuous"} -> "timer200"
    [] OTHER -> "ready"

\* videoRef.current.play() resolves in one of these components
StartCameraPlayResolve(continuous) ==
  /\ variant \in Variants
  /\ camPc = "play"
  /\ CASE variant = "basic" ->
            \* capabilities.focusMode includes 'continuous', or not
            IF continuous
            THEN /\ applied' = Issue(applied, "continuous")
                 /\ camPc' = "applyBasic"
            ELSE /\ camPc' = "ready"
                 /\ UNCHANGED applied
       [] variant = "idCard" ->
            /\ camPc' = "timer800"
            /\ UNCHANGED applied
       [] variant = "balanced" ->
            /\ applied' = Issue(applied, "distance")
            /\ camPc' = "applyDistance"
       [] variant \in {"macro12", "macro5"} ->
            /\ camPc' = "timer500"
            /\ UNCHANGED applied
  /\ UNCHANGED <<mounted, pix, hasImageCapture, streamRef, error, focusStatus,
                 photoUrl, taps, variant, gyro>>

\* a setTimeout callback of the focus optimisation runs: applyConstraints on
\* the video track of the stream
FocusTimerFires ==
  /\ camPc \in TimerPcs
  /\ applied' = Issue(applied, TimerCall(camPc))
  /\ camPc' = TimerApply(camPc)
  /\ UNCHANGED <<mounted, pix, hasImageCapture, streamRef, error, focusStatus,
                 photoUrl, taps, variant, gyro>>

\* the awaited applyConstraints call of the start-up resolves
ApplyConstraintsResolve ==
  /\ camPc \in ApplyPcs
  /\ applied' = SettledCall(applied, PendingCall(camPc), "ok")
  /\ camPc' = AfterResolve(camPc)
  /\ UNCHANGED <<mounted, pix, hasImageCapture, streamRef, error, focusStatus,
                 photoUrl, taps, variant, gyro>>

\* it rejects: the catch block around it
ApplyConstraintsReject ==
  /\ camPc \in ApplyPcs
  /\ LET log == SettledCall(applied, PendingCall(camPc), "failed")
     IN CASE camPc = "applyBasic" ->
               \* inside the try of startCamera: setError
               /\ applied' = log
               /\ error' = TRUE
               /\ camPc' = "failed"
          [] camPc = "apply800" ->
               /\ applied' = Issue(log, "fallback")
               /\ camPc' = "applyFallback"
               /\ UNCHANGED error
          [] camPc = "applyDistance" ->
               /\ applied' = Issue(log, "macroOnly")
               /\ camPc' = "applyMacro"
               /\ UNCHANGED error
          [] camPc = "applyMacro" ->
               /\ applied' = Issue(log, "continuousOnly")
               /\ camPc' = "applyContinuous"
               /\ UNCHANGED error
          [] camPc = "applyContinuous" ->
               /\ applied' = log
               /\ camPc' = "timer200"
               /\ UNCHANGED error
          [] OTHER ->
               /\ applied' = log
               /\ camPc' = "ready"
               /\ UNCHANGED error
  /\ UNCHANGED <<mounted, pix, hasImageCapture, streamRef, focusStatus,
                 photoUrl, taps, variant, gyro>>

\* const imageCapture = new window.ImageCapture(track), before the try: the
\* TypeError of a browser without ImageCapture ends capturePhoto; otherwise
\* imageCapture.takePhoto is requested
Construct(s) ==
  IF hasImageCapture THEN [s EXCEPT !.pc = "take", !.single = "requested"]
  ELSE [s EXCEPT !.pc = "threw"]

\* the shutter button's onClick in one of these components
VariantTap(t) ==
  /\ variant \in Variants
  /\ mounted
  /\ photoUrl = NullUrl
  /\ taps[t].pc = "idle"
  /\ LET s == [taps[t] EXCEPT !.onError = error]
     IN IF ~streamRef.held
        THEN /\ taps' = [taps EXCEPT ![t] = [s EXCEPT !.pc = "done"]]
             /\ UNCHANGED applied
        ELSE IF variant = "balanced"
        THEN /\ taps' = [taps EXCEPT ![t] = [s EXCEPT !.pc = "lock"]]
             /\ applied' = Issue(applied, "captureLock")
        ELSE /\ taps' = [taps EXCEPT ![t] = Construct(s)]
             /\ UNCHANGED applied
  /\ UNCHANGED <<mounted, pix, hasImageCapture, camPc, streamRef, error,
                 focusStatus, photoUrl, variant, gyro>>

\* the focus lock before the photo resolves: the 100 ms wait
LockResolve(t) ==
  /\ taps[t].pc = "lock"
  /\ applied' = SettledCall(applied, "captureLock", "ok")
  /\ taps' = [taps EXCEPT ![t].pc = "lockDelay"]
  /\ UNCHANGED <<mounted, pix, hasImageCapture, camPc, streamRef, error,
                 focusStatus, photoUrl, variant, gyro>>

\* it rejects: console.warn, then the photo
LockReject(t) ==
  /\ taps[t].pc = "lock"
  /\ applied' = SettledCall(applied, "captureLock", "failed")
  /\ taps' = [taps EXCEPT ![t] = Construct(taps[t])]
  /\ UNCHANGED <<mounted, pix, hasImageCapture, camPc, streamRef, error,
                 focusStatus, photoUrl, variant, gyro>>

\* the 100 ms wait is over
LockDelayElapsed(t) ==
  /\ taps[t].pc = "lockDelay"
  /\ taps' = [taps EXCEPT ![t] = Construct(taps[t])]
  /\ UNCHANGED <<mounted, pix, hasImageCapture, camPc, streamRef, error,
                 focusStatus, photoUrl, variant, applied, gyro>>

\* imageCapture.takePhoto resolves with still k
VariantTakeResolve(t, k) ==
  /\ variant \in Variants
  /\ taps[t].pc = "take"
  /\ taps[t].single = "requested"
  /\ IF variant = "balanced"
     THEN /\ taps' = [taps EXCEPT ![t].pc = "load", ![t].single = "loading",
                                  ![t].singleBlob = SingleBlob(t, k)]
          /\ UNCHANGED photoUrl
     ELSE /\ taps' = [taps EXCEPT
                        ![t] = SingleDone([taps[t] EXCEPT
                                             !.singleBlob = SingleBlob(t, k)])]
          /\ photoUrl' = createObjectURL(SingleBlob(t, k))
  /\ UNCHANGED <<mounted, pix, hasImageCapture, camPc, streamRef, error,
                 focusStatus, variant, applied, gyro>>

\* imageCapture.takePhoto rejects: the catch block of capturePhoto
VariantTakeReject(t) ==
  /\ variant \in Variants
  /\ taps[t].pc = "take"
  /\ taps[t].single = "requested"
  /\ LET s == [taps[t] EXCEPT !.single = "rejected"]
     IN IF ~mounted
        THEN /\ taps' = [taps EXCEPT ![t] = FallbackNoVideo(s)]
             /\ UNCHANGED photoUrl
        ELSE /\ taps' = [taps EXCEPT ![t] = FallbackDrawn(s)]
             /\ \E k \in Stills :
                  photoUrl' = variantFallbackOf[variant][VideoFrame(t, k)]
  /\ UNCHANGED <<mounted, pix, hasImageCapture, camPc, streamRef, error,
                 focusStatus, variant, applied, gyro>>

\* img.onload of the balanced component: enhance, setPhotoUrl
VariantImageLoad(t) ==
  /\ taps[t].pc = "load"
  /\ taps[t].single = "loading"
  /\ taps' = [taps EXCEPT ![t] = SingleDone(taps[t])]
  /\ photoUrl' = enhancedDataUrlOf[taps[t].singleBlob]
  /\ UNCHANGED <<mounted, pix, hasImageCapture, camPc, streamRef, error,
                 focusStatus, variant, applied, gyro>>

\* the image fails to decode: there is no onerror, the promise stays pending
VariantImageError(t) ==
  /\ taps[t].pc = "load"
  /\ taps[t].single = "loading"
  /\ taps' = [taps EXCEPT ![t].single = "broken"]
  /\ UNCHANGED <<mounted, pix, hasImageCapture, camPc, streamRef, error,
                 focusStatus, photoUrl, variant, applied, gyro>>

\* the steps of startCamera and of its timers
VariantCameraStep ==
  \/ GetUserMediaResolve
  \/ GetUserMediaReject
  \/ \E continuous \in BOOLEAN : StartCameraPlayResolve(continuous)
  \/ PlayReject
  \/ FocusTimerFires
  \/ ApplyConstraintsResolve
  \/ ApplyConstraintsReject

\* what the track, the capture collaborator, the timer and the image decoder
\* do for the capturePhoto call of tap t
VariantSettles(t) ==
  \/ LockResolve(t)
  \/ LockReject(t)
  \/ LockDelayElapsed(t)
  \/ \E k \in Stills : VariantTakeResolve(t, k)
  \/ VariantTakeReject(t)
  \/ VariantImageLoad(t)
  \/ VariantImageError(t)

VariantNext ==
  \/ VariantCameraStep
  \/ Unmount
  \/ Retake
  \/ VariantTap(1)
  \/ VariantSettles(1)

VariantSpec == VariantInit /\ [][VariantNext]_vars

\* every request, timer and image decode eventually settles
VariantLiveSpec ==
  /\ VariantSpec
  /\ WF_vars(VariantCameraStep)
  /\ WF_vars(VariantSettles(1))

(***************************************************************************)
(* Properties of the other components                                      *)
(***************************************************************************)
\* the capturePhoto call of the tap found a stream in streamRef.current and
\* went on to take a photo
TapHoldsStream ==
  taps[1].pc \in {"lock", "lockDelay", "take", "load", "threw"}

\* C22: a shutter tap made while the stream is held and the video element is
\* mounted eventually sets photoUrl to a picture, as long as the component
\* stays mounted, whether takePhoto rejects or no ImageCapture object can be
\* made
C22_TapEventuallyShowsPhoto ==
  (TapHoldsStream /\ mounted) ~> (photoUrl # NullUrl \/ ~mounted)

\* the applyConstraints calls made by the callbacks of the 800 ms, 300 ms,
\* 500 ms and 200 ms timers
TimerCalls == {TimerCall(pc) : pc \in TimerPcs}

\* C26: no applyConstraints call of a delayed focus-optimisation timer is made
\* on the video track once the unmount cleanup has stopped that track
C26_NoConstraintsAfterStop ==
  \A n \in 1..Len(applied) :
    applied[n].call \in TimerCalls => ~applied[n].onStopped

\* C29: whenever the camera error message is set no stream is held, and a
\* capturePhoto call made while the message is shown has returned without
\* requesting a capture and without setting photoUrl
C29_ErrorMeansNoStream ==
  /\ error => ~streamRef.held
  /\ \A t \in TapIds :
       taps[t].onError =>
         /\ taps[t].pc = "done"
         /\ taps[t].single = "none"
         /\ taps[t].fallback = "none"
         /\ taps[t].sets = 0

====
